---- MODULE Spec2Model ----
\* Portoco: a tabbed browser shell in three iterations (portoco1.py,
\* portoco1.2.py, portoco1.3.py).  The model covers the application's own
\* state: the tab widget, the per-tab history lists, the URL bar, the history
\* menu, the bookmark containers and the two text files under portoco_data/.
\* Strings are sequences of one-character strings, so that strip, split,
\* startswith, endswith and replace are computed as Python computes them.
EXTENDS Integers, Sequences, FiniteSets, TLC

VARIABLES
    version,        \* which iteration of the program runs: "1", "1.2", "1.3"
    running,        \* TRUE between the end of __init__ and aboutToQuit
    tabs,           \* self.tabs: the views in tab order (index 0 first)
    cur,            \* self.tabs.currentIndex(), -1 when there is no tab
    views,          \* number of QWebEngineView objects created by this process
    viewUrl,        \* view -> view.url().toString()
    viewTitle,      \* view -> view.title()
    tabText,        \* view in the tab widget -> its tab text
    history,        \* self.history: view -> list of urls (1 and 1.2)
    url_bar,        \* self.url_bar.text()
    history_menu,   \* the urls of the actions in self.history_menu, top first
    bookmarks_list, \* portoco1.py: list of <<url, title>>
    bookmarks,      \* 1.2 and 1.3: insertion-ordered dict folder -> list
    raised,         \* the last handler ended with an uncaught Python exception
    recorded,       \* urls put into any tab's history list in this session
    dialog,         \* the QInputDialog add_bookmark waits in, with its locals
    bookmarksFile,  \* portoco_data/bookmarks.txt: its lines, or NoFile
    historyFile     \* portoco_data/history.txt: its lines, or NoFile

mem == <<tabs, cur, views, viewUrl, viewTitle, tabText, history, url_bar,
         history_menu, bookmarks_list, bookmarks, raised, recorded, dialog>>
files == <<bookmarksFile, historyFile>>
vars == <<version, running, mem, files>>

\* ---------------------------------------------------------------- bounds

\* QWebEngineView objects one process creates (add_tab calls per session).
MaxViews == 2
\* Views one process creates where only the tab bar is exercised.
MaxTabs == 5
\* Longest per-tab history list the model lets grow.
MaxHist == 2
\* Entries of one bookmark container (the flat list or one folder's list).
MaxEntries == 2
\* Folders of the bookmark dict.
MaxFolders == 2
\* Lines of a bookmarks.txt found on disk at start-up.
MaxLines == 3

\* ---------------------------------------------------------------- strings

Range(s) == {s[i] : i \in 1..Len(s)}

\* Characters str.strip() removes: those str.isspace() is true of.  A
\* character that cannot be written in a TLA+ string is named by its code
\* point ("U+000B" is the one character VERTICAL TAB).
Whitespace ==
    {" ", "\t", "\n", "\r", "\f", "U+000B", "U+001C", "U+001D", "U+001E",
     "U+001F", "U+0085", "U+00A0", "U+1680", "U+2000", "U+2001", "U+2002",
     "U+2003", "U+2004", "U+2005", "U+2006", "U+2007", "U+2008", "U+2009",
     "U+200A", "U+2028", "U+2029", "U+202F", "U+205F", "U+3000"}

RECURSIVE lstrip(_)
lstrip(s) ==
    IF s # <<>> /\ Head(s) \in Whitespace THEN lstrip(Tail(s)) ELSE s

RECURSIVE rstrip(_)
rstrip(s) ==
    IF s # <<>> /\ s[Len(s)] \in Whitespace
    THEN rstrip(SubSeq(s, 1, Len(s) - 1)) ELSE s

\* str.strip()
strip(s) == rstrip(lstrip(s))

\* str.startswith(p)
startswith(s, p) == Len(s) >= Len(p) /\ SubSeq(s, 1, Len(p)) = p

\* str.endswith(p)
endswith(s, p) ==
    Len(s) >= Len(p) /\ SubSeq(s, Len(s) - Len(p) + 1, Len(s)) = p

\* c in s, for a one-character c
contains(s, c) == \E i \in 1..Len(s) : s[i] = c

\* s.replace(a, b), for one-character a and b
replace(s, a, b) == [i \in 1..Len(s) |-> IF s[i] = a THEN b ELSE s[i]]

\* s.find(c) + 1 for a c that occurs in s
find(s, c) == CHOOSE i \in 1..Len(s) : s[i] = c /\ \A j \in 1..(i - 1) : s[j] # c

\* s.split(sep, maxsplit), for a one-character sep
RECURSIVE split(_, _, _)
split(s, sep, maxsplit) ==
    IF maxsplit = 0 \/ ~contains(s, sep) THEN <<s>>
    ELSE LET i == find(s, sep)
         IN  <<SubSeq(s, 1, i - 1)>>
             \o split(SubSeq(s, i + 1, Len(s)), sep, maxsplit - 1)

\* reversed(list)
reversed(s) == [i \in 1..Len(s) |-> s[Len(s) + 1 - i]]

\* ------------------------------------------------------- string constants

HTTP == <<"h", "t", "t", "p", ":", "/", "/">>
HTTPS == <<"h", "t", "t", "p", "s", ":", "/", "/">>
\* "https://duckduckgo.com", the url of every new tab
HOME == HTTPS \o <<"d", "u", "c", "k", "d", "u", "c", "k", "g", "o", ".", "c", "o", "m">>
\* "https://duckduckgo.com/?q="
DDGQ == HOME \o <<"/", "?", "q", "=">>
\* the tlds list of portoco1.2.py load_url
tlds == { <<".", "c", "o", "m">>, <<".", "n", "e", "t">>, <<".", "o", "r", "g">>,
          <<".", "i", "o">>, <<".", "g", "o", "v">>, <<".", "e", "d", "u">>,
          <<".", "c", "o">>, <<".", "u", "s">>, <<".", "u", "k">>,
          <<".", "c", "a">>, <<".", "d", "e">>, <<".", "j", "p">> }
\* "New Tab"
NEWTAB == <<"N", "e", "w", " ", "T", "a", "b">>
\* "Bookmarks", the default folder name
BOOKMARKS == <<"B", "o", "o", "k", "m", "a", "r", "k", "s">>

\* A file of portoco_data/: whether os.path.exists(path) holds, whether
\* open(path, "r", encoding="utf-8") and the reading of all its lines
\* succeed, and the lines "for line in f" delivers
NoFile == [exists |-> FALSE, readable |-> TRUE, lines |-> <<>>]
File(lines) == [exists |-> TRUE, readable |-> TRUE, lines |-> lines]
\* A path that exists and cannot be read to its end as UTF-8 text: a
\* directory of that name or no permission (open raises OSError, no line is
\* delivered), or bytes that are not UTF-8 (the file is decoded in blocks of
\* 8192 bytes, the lines that end in the blocks before the undecodable one
\* are delivered, then "for line in f" raises UnicodeDecodeError).  lines
\* are the lines delivered before the exception.
Unreadable(lines) == [exists |-> TRUE, readable |-> FALSE, lines |-> lines]
None == 0

\* add_bookmark of 1.2 and 1.3 asks for the folder with QInputDialog.getText
\* and getItem, which return when the user answers; until then the call holds
\* the url and title it read before, and the event loop of the dialog
\* delivers the signals of the views.  No dialog is open:
NoDialog == [kind |-> "none", url |-> <<>>, title |-> <<>>]

\* ------------------------------------------------- url bar text -> target

IsHttpUrl(text) == startswith(text, HTTP) \/ startswith(text, HTTPS)

\* portoco1.py load_url: the text handed to QUrl() for the stripped bar text
load_url_target_1(text) ==
    IF ~IsHttpUrl(text) THEN HTTP \o text ELSE text

\* portoco1.2.py load_url ("Smart URL vs search")
load_url_target_12(text) ==
    IF \E tld \in tlds : endswith(text, tld)
    THEN (IF ~IsHttpUrl(text) THEN HTTP \o text ELSE text)
    ELSE DDGQ \o replace(text, " ", "+")

\* portoco1.3.py navigate
navigate_target(text) ==
    IF contains(text, " ") \/ ~contains(text, ".")
    THEN DDGQ \o replace(text, " ", "+")
    ELSE IF ~startswith(text, <<"h", "t", "t", "p">>)
    THEN HTTPS \o text
    ELSE text

\* ------------------------------------------------------------ persistence
\* A file is the sequence of its lines without the line terminator; every
\* write is one f.write(f"...\n"), every read strips the line.

\* "|".join(fields)
RECURSIVE joinBar(_)
joinBar(fields) ==
    IF Len(fields) = 1 THEN fields[1]
    ELSE fields[1] \o <<"|">> \o joinBar(Tail(fields))

\* portoco1.py save_bookmarks: one "title|url" line per (url, title)
save_bookmarks_1(blist) ==
    [i \in 1..Len(blist) |-> joinBar(<<blist[i][2], blist[i][1]>>)]

\* portoco1.py load_bookmarks: the list after the loop; error is TRUE when a
\* line does not unpack into title, url (ValueError ends the loop)
RECURSIVE load_bookmarks_1(_, _)
load_bookmarks_1(blist, lines) ==
    IF lines = <<>> THEN [error |-> FALSE, list |-> blist]
    ELSE LET parts == split(strip(Head(lines)), "|", 1)
         IN  IF Len(parts) # 2 THEN [error |-> TRUE, list |-> blist]
             ELSE load_bookmarks_1(Append(blist, <<parts[2], parts[1]>>),
                                   Tail(lines))

\* The bookmark dict: a sequence of [folder, items] in insertion order.
Folders(d) == {d[i].folder : i \in 1..Len(d)}
FolderIndex(d, f) == CHOOSE i \in 1..Len(d) : d[i].folder = f
Items(d, f) == d[FolderIndex(d, f)].items

\* if folder not in self.bookmarks: self.bookmarks[folder] = []
setdefault(d, f) ==
    IF f \in Folders(d) THEN d ELSE Append(d, [folder |-> f, items |-> <<>>])

\* self.bookmarks[folder].append(item)
dictAppend(d, f, item) ==
    [d EXCEPT ![FolderIndex(d, f)].items = Append(@, item)]

\* portoco1.2.py save_bookmarks: "folder|title|url" for every (url, title)
RECURSIVE save_bookmarks_12(_)
save_bookmarks_12(d) ==
    IF d = <<>> THEN <<>>
    ELSE [i \in 1..Len(d[1].items) |->
             joinBar(<<d[1].folder, d[1].items[i][2], d[1].items[i][1]>>)]
         \o save_bookmarks_12(Tail(d))

\* load_bookmarks of 1.2 with "break" in place of "continue": a line without
\* three fields ends the loading
RECURSIVE load_bookmarks_12_break(_, _)
load_bookmarks_12_break(d, lines) ==
    IF lines = <<>> THEN d
    ELSE LET parts == split(strip(Head(lines)), "|", 2)
         IN  IF Len(parts) # 3 THEN d
             ELSE load_bookmarks_12_break(
                      dictAppend(setdefault(d, parts[1]), parts[1],
                                 <<parts[3], parts[2]>>),
                      Tail(lines))

\* portoco1.2.py load_bookmarks: the loop over the lines of an existing file
RECURSIVE load_bookmarks_12(_, _)
load_bookmarks_12(d, lines) ==
    IF lines = <<>> THEN d
    ELSE LET parts == split(strip(Head(lines)), "|", 2)
         IN  IF Len(parts) # 3 THEN load_bookmarks_12(d, Tail(lines))
             ELSE load_bookmarks_12(
                      dictAppend(setdefault(d, parts[1]), parts[1],
                                 <<parts[3], parts[2]>>),
                      Tail(lines))

\* save_history: the urls of every list of self.history, in dict order (the
\* keys are views, inserted once each by add_tab, so in order of creation)
RECURSIVE history_items(_, _, _)
history_items(h, v, last) ==
    IF v > last THEN <<>>
    ELSE (IF v \in DOMAIN h THEN h[v] ELSE <<>>) \o history_items(h, v + 1, last)

\* save_history writing urls[-1] only: the last url of each tab
save_history_last_url(h, last) ==
    history_items([v \in DOMAIN h |-> <<h[v][Len(h[v])]>>], 1, last)

save_history(h, last) == history_items(h, 1, last)

\* ------------------------------------------------------ the window object
\* The handlers are functions from the object's fields (a record s with the
\* fields of mem) to the fields after the handler, so that a handler that
\* calls another, or a signal that runs several slots, composes them.

Mem == [tabs |-> tabs, cur |-> cur, views |-> views, viewUrl |-> viewUrl,
        viewTitle |-> viewTitle, tabText |-> tabText, history |-> history,
        url_bar |-> url_bar, history_menu |-> history_menu,
        bookmarks_list |-> bookmarks_list, bookmarks |-> bookmarks,
        raised |-> raised, recorded |-> recorded, dialog |-> dialog,
        bookmarksFile |-> bookmarksFile, historyFile |-> historyFile]

SetMem(s) ==
    /\ tabs' = s.tabs
    /\ cur' = s.cur
    /\ views' = s.views
    /\ viewUrl' = s.viewUrl
    /\ viewTitle' = s.viewTitle
    /\ tabText' = s.tabText
    /\ history' = s.history
    /\ url_bar' = s.url_bar
    /\ history_menu' = s.history_menu
    /\ bookmarks_list' = s.bookmarks_list
    /\ bookmarks' = s.bookmarks
    /\ raised' = s.raised
    /\ recorded' = s.recorded
    /\ dialog' = s.dialog
    /\ bookmarksFile' = s.bookmarksFile
    /\ historyFile' = s.historyFile

\* The fields as the first lines of __init__ leave them, beside the files bf
\* and hf found on disk.
Fresh(bf, hf) ==
    [tabs |-> <<>>, cur |-> -1, views |-> 0, viewUrl |-> <<>>,
     viewTitle |-> <<>>, tabText |-> <<>>, history |-> <<>>,
     url_bar |-> <<>>, history_menu |-> <<>>, bookmarks_list |-> <<>>,
     bookmarks |-> <<>>, raised |-> FALSE, recorded |-> {},
     dialog |-> NoDialog,
     bookmarksFile |-> bf, historyFile |-> hf]

\* QTabWidget.widget(index): None for an index that names no tab
widget(s, index) ==
    IF index >= 0 /\ index < Len(s.tabs) THEN s.tabs[index + 1] ELSE None

\* QTabWidget.indexOf(view): -1 for a view that is in no tab
indexOf(s, view) ==
    IF \E i \in 1..Len(s.tabs) : s.tabs[i] = view
    THEN (CHOOSE i \in 1..Len(s.tabs) : s.tabs[i] = view) - 1
    ELSE -1

\* self.tabs.currentWidget()
current_tab(s) == widget(s, s.cur)

\* f restricted to the keys other than k
without(f, k) == [x \in DOMAIN f \ {k} |-> f[x]]

\* f with key k added or overwritten
with(f, k, val) == [x \in DOMAIN f \cup {k} |-> IF x = k THEN val ELSE f[x]]

\* self.history[view].append(url), and the session's record of it
record(s, view, url) ==
    [s EXCEPT !.history[view] = Append(@, url), !.recorded = @ \cup {url}]

\* 1 and 1.2 update_history_menu: the menu is rebuilt from the current tab
update_history_menu(s) ==
    LET current == current_tab(s)
    IN  IF current = None THEN [s EXCEPT !.history_menu = <<>>]
        ELSE IF current \notin DOMAIN s.history
        THEN [s EXCEPT !.history_menu = <<>>, !.raised = TRUE]
        ELSE [s EXCEPT !.history_menu = reversed(s.history[current])]

\* update_url_bar without the test for the current tab: the bar shows the url
\* of whichever view reported a change
update_url_bar_any_view(s, view) ==
    LET url == s.viewUrl[view]
        s1 == [s EXCEPT !.url_bar = url]
    IN  IF view \notin DOMAIN s1.history THEN [s1 EXCEPT !.raised = TRUE]
        ELSE update_history_menu(
                 IF url \notin Range(s1.history[view])
                 THEN record(s1, view, url) ELSE s1)

\* 1 and 1.2 update_url_bar(view); self.history[view] raises KeyError for a
\* view that close_tab has removed, which ends the slot
update_url_bar(s, view) ==
    LET url == s.viewUrl[view]
        s1 == IF view = current_tab(s) THEN [s EXCEPT !.url_bar = url] ELSE s
    IN  IF view \notin DOMAIN s1.history THEN [s1 EXCEPT !.raised = TRUE]
        ELSE update_history_menu(
                 IF url \notin Range(s1.history[view])
                 THEN record(s1, view, url) ELSE s1)

\* 1 and 1.2 update_tab_title(view, title)
update_tab_title(s, view, title) ==
    IF indexOf(s, view) >= 0 THEN [s EXCEPT !.tabText[view] = title] ELSE s

\* the title cut with title[:20] + "..." in place of title[:17] + "..."
tab_title_cut_20(title) ==
    LET t == IF title # <<>> THEN title ELSE NEWTAB
    IN  IF Len(t) > 20 THEN SubSeq(t, 1, 20) \o <<".", ".", ".">> ELSE t

\* 1.3 update_tab: the title shown in the tab
tab_title(title) ==
    LET t == IF title # <<>> THEN title ELSE NEWTAB
    IN  IF Len(t) > 20 THEN SubSeq(t, 1, 17) \o <<".", ".", ".">> ELSE t

\* 1.3 update_tab(view, qurl)
update_tab(s, view, qurl) ==
    LET s1 == IF indexOf(s, view) # -1
              THEN [s EXCEPT !.tabText[view] = tab_title(s.viewTitle[view])]
              ELSE s
    IN  IF view = current_tab(s1) THEN [s1 EXCEPT !.url_bar = qurl] ELSE s1

\* The slots add_tab connects to view.urlChanged, in connection order.  An
\* exception in one slot is reported and does not keep the next from running.
urlChanged(s, view) ==
    IF version = "1.3" THEN update_tab(s, view, s.viewUrl[view])
    ELSE update_history_menu(update_url_bar(s, view))

\* view.setUrl(QUrl(url)) on a connected view: the url is the view's url at
\* once, and urlChanged is emitted when it differs from the old one
setUrl(s, view, url) ==
    IF s.viewUrl[view] # url
    THEN urlChanged([s EXCEPT !.viewUrl[view] = url], view)
    ELSE s

\* 1 and 1.2 update_url, 1.3 sync_url_bar: the slot of tabs.currentChanged
update_url(s, index) ==
    LET view == widget(s, index)
    IN  IF view # None THEN [s EXCEPT !.url_bar = s.viewUrl[view]] ELSE s

\* add_tab(url)
add_tab(s, url) ==
    LET view == s.views + 1
        s1 == [s EXCEPT !.views = view,
                        !.viewUrl = with(@, view, url),
                        !.viewTitle = with(@, view, <<>>)]
        s2 == IF version = "1.3" THEN s1
              ELSE [s1 EXCEPT !.history = with(@, view, <<url>>),
                              !.recorded = @ \cup {url}]
        s3 == [s2 EXCEPT !.tabs = Append(@, view),
                         !.tabText = with(@, view, NEWTAB),
                         !.cur = Len(s2.tabs)]
    IN  update_url(s3, s3.cur)

\* QTabWidget.removeTab(index): the tab right of a removed current tab
\* becomes current (the last one when there is none); currentChanged is
\* emitted when the current index or the current widget changes
removeTab(s, index) ==
    IF widget(s, index) = None THEN s
    ELSE LET view == widget(s, index)
             left == [s EXCEPT
                         !.tabs = SubSeq(@, 1, index) \o SubSeq(@, index + 2, Len(@)),
                         !.tabText = without(@, view)]
             n == Len(left.tabs)
         IN  IF index > s.cur THEN left
             ELSE IF index < s.cur
             THEN update_url([left EXCEPT !.cur = s.cur - 1], s.cur - 1)
             ELSE LET c == IF index < n THEN index ELSE n - 1
                  IN  update_url([left EXCEPT !.cur = c], c)

\* close_tab that forgets the history list before it looks at the tab count
close_tab_forget_first(s, index) ==
    LET tab == widget(s, index)
        s1 == IF tab \in DOMAIN s.history
              THEN [s EXCEPT !.history = without(@, tab)] ELSE s
    IN  IF Len(s.tabs) > 1 THEN removeTab(s1, index) ELSE s1

\* close_tab without the test of the tab count
close_tab_last_too(s, index) ==
    LET tab == widget(s, index)
        s1 == IF tab \in DOMAIN s.history
              THEN [s EXCEPT !.history = without(@, tab)] ELSE s
    IN  removeTab(s1, index)

\* close_tab(index)
close_tab(s, index) ==
    IF Len(s.tabs) > 1
    THEN LET tab == widget(s, index)
             s1 == IF tab \in DOMAIN s.history
                   THEN [s EXCEPT !.history = without(@, tab)] ELSE s
         IN  removeTab(s1, index)
    ELSE s

\* 1 and 1.2 load_url: returnPressed of the url bar
load_url(s) ==
    LET text == strip(s.url_bar)
        target == IF version = "1" THEN load_url_target_1(text)
                  ELSE load_url_target_12(text)
        current == current_tab(s)
    IN  IF text = <<>> \/ current = None THEN s
        ELSE LET s1 == setUrl(s, current, target)
                 s2 == IF target \notin Range(s1.history[current])
                       THEN record(s1, current, target) ELSE s1
             IN  update_history_menu(s2)

\* 1.3 navigate: returnPressed of the url bar
navigate(s) ==
    LET text == strip(s.url_bar)
        current == current_tab(s)
    IN  IF text = <<>> THEN s
        ELSE IF current = None THEN [s EXCEPT !.raised = TRUE]
        ELSE setUrl(s, current, navigate_target(text))

\* load_bookmark(url), and the lambda of a 1.3 bookmark action
load_bookmark(s, url) ==
    IF current_tab(s) = None THEN [s EXCEPT !.raised = TRUE]
    ELSE setUrl(s, current_tab(s), url)

\* current.url().toString()
current_url(s) == s.viewUrl[current_tab(s)]

\* current.title() or url
current_title(s) ==
    IF s.viewTitle[current_tab(s)] # <<>> THEN s.viewTitle[current_tab(s)]
    ELSE current_url(s)

\* add_bookmark of 1 without the test for a url already in the list
add_bookmark_1_unchecked(s) ==
    LET blist == Append(s.bookmarks_list, <<current_url(s), current_title(s)>>)
    IN  [s EXCEPT !.bookmarks_list = blist,
                  !.bookmarksFile = File(save_bookmarks_1(blist))]

\* portoco1.py add_bookmark: a new url is appended and the file rewritten
add_bookmark_1(s) ==
    LET url == current_url(s)
    IN  IF url \notin {s.bookmarks_list[i][1] : i \in 1..Len(s.bookmarks_list)}
        THEN LET blist == Append(s.bookmarks_list, <<url, current_title(s)>>)
             IN  [s EXCEPT !.bookmarks_list = blist,
                           !.bookmarksFile = File(save_bookmarks_1(blist))]
        ELSE s

\* QInputDialog.getText / getItem is entered with the locals url and title
ask(s, kind, url, title) ==
    [s EXCEPT !.dialog = [kind |-> kind, url |-> url, title |-> title]]

\* portoco1.2.py add_bookmark up to the folder dialog: url and title are
\* read from the current tab, then getText is entered
add_bookmark_12(s) == ask(s, "getText", current_url(s), current_title(s))

\* portoco1.2.py add_bookmark from the return of getText with (text, ok)
add_bookmark_12_answered(s, text, ok) ==
    LET url == s.dialog.url
        folder == strip(IF ~ok \/ strip(text) = <<>> THEN BOOKMARKS ELSE text)
        d == setdefault(s.bookmarks, folder)
        s1 == [s EXCEPT !.dialog = NoDialog]
    IN  IF url \in {Items(d, folder)[i][1] : i \in 1..Len(Items(d, folder))}
        THEN [s1 EXCEPT !.bookmarks = d]
        ELSE [s1 EXCEPT !.bookmarks =
                            dictAppend(d, folder, <<url, s.dialog.title>>)]

\* The extra item of the 1.3 folder selector: HEAVY PLUS SIGN (U+2795, not
\* the ASCII "+") followed by " Create new folder"
CREATE == <<"U+2795", " ", "C", "r", "e", "a", "t", "e", " ", "n", "e", "w", " ",
            "f", "o", "l", "d", "e", "r">>

\* portoco1.3.py add_bookmark up to the first dialog: the folder selector
\* when there are folders, the folder name dialog when there are none
add_bookmark_13(s) ==
    IF current_tab(s) = None THEN s
    ELSE ask(s, IF s.bookmarks # <<>> THEN "getItem" ELSE "getText",
             current_url(s), current_title(s))

\* portoco1.3.py add_bookmark, the end: the folder is known
add_bookmark_13_store(s, folder) ==
    LET url == s.dialog.url
        d == setdefault(s.bookmarks, folder)
        s1 == [s EXCEPT !.dialog = NoDialog]
    IN  IF url \in {Items(d, folder)[i][2] : i \in 1..Len(Items(d, folder))}
        THEN [s1 EXCEPT !.bookmarks = d]
        ELSE [s1 EXCEPT !.bookmarks =
                            dictAppend(d, folder, <<s.dialog.title, url>>)]

\* portoco1.3.py add_bookmark from the return of getItem with (pick, ok):
\* the create item leads to the folder name dialog
add_bookmark_13_picked(s, pick, ok) ==
    IF ~ok THEN [s EXCEPT !.dialog = NoDialog]
    ELSE IF pick = CREATE THEN ask(s, "getText", s.dialog.url, s.dialog.title)
    ELSE add_bookmark_13_store(s, pick)

\* portoco1.3.py add_bookmark from the return of getText with (text, ok)
add_bookmark_13_named(s, text, ok) ==
    IF ~ok \/ strip(text) = <<>> THEN [s EXCEPT !.dialog = NoDialog]
    ELSE add_bookmark_13_store(s, strip(text))

\* portoco1.2.py remove_bookmark(folder, url)
remove_bookmark(s, folder, url) ==
    IF folder \in Folders(s.bookmarks)
    THEN LET i == FolderIndex(s.bookmarks, folder)
             kept == SelectSeq(s.bookmarks[i].items, LAMBDA b : b[1] # url)
         IN  IF kept = <<>>
             THEN [s EXCEPT !.bookmarks =
                       SubSeq(@, 1, i - 1) \o SubSeq(@, i + 1, Len(@))]
             ELSE [s EXCEPT !.bookmarks[i].items = kept]
    ELSE s

\* 1 and 1.2 load_history(self, url), the first of the two definitions of
\* that name in the class body: the current tab is sent to url
load_history_url(s, url) ==
    IF current_tab(s) = None THEN [s EXCEPT !.raised = TRUE]
    ELSE setUrl(s, current_tab(s), url)

\* The parameters of the function the class attribute load_history is bound
\* to: the class body defines the name twice, the later definition replaces
\* the earlier one, and the later one takes self only.
load_history_params == <<"self">>

\* The lambda update_history_menu connects to a menu entry for url u:
\* self.load_history(u).  A call with an argument the function has no
\* parameter for raises TypeError before the function body runs.
history_action(s, u) ==
    IF Len(<<"self", u>>) # Len(load_history_params)
    THEN [s EXCEPT !.raised = TRUE]
    ELSE load_history_url(s, u)

\* 1 and 1.2 load_history(self), the definition the class ends up with: a
\* line is appended to the current tab's list when there is a current tab
RECURSIVE load_history(_, _)
load_history(s, lines) ==
    IF lines = <<>> THEN s
    ELSE load_history(
             IF current_tab(s) # None
             THEN record(s, current_tab(s), strip(Head(lines))) ELSE s,
             Tail(lines))

\* __init__: the fields after it.  load_bookmarks runs first, then
\* load_history, then add_tab.  An exception leaves __init__ before the
\* first tab is opened: the ValueError of portoco1.py's load_bookmarks, and
\* in 1 and 1.2 the error of open or of reading a file that exists and is
\* not readable (there is no try around either); the lines delivered before
\* the error have been handled by then.
init(bf, hf) ==
    LET s0 == Fresh(bf, hf)
        loaded == IF version = "1" /\ bf.exists
                  THEN load_bookmarks_1(<<>>, bf.lines)
                  ELSE [error |-> FALSE, list |-> <<>>]
        s1 == IF version = "1" THEN [s0 EXCEPT !.bookmarks_list = loaded.list]
              ELSE IF version = "1.2" /\ bf.exists
              THEN [s0 EXCEPT !.bookmarks = load_bookmarks_12(<<>>, bf.lines)]
              ELSE s0
        s2 == IF version # "1.3" /\ hf.exists
              THEN load_history(s1, hf.lines) ELSE s1
    IN  IF loaded.error \/ (version # "1.3" /\ bf.exists /\ ~bf.readable)
        THEN [s1 EXCEPT !.raised = TRUE]
        ELSE IF version # "1.3" /\ hf.exists /\ ~hf.readable
        THEN [s2 EXCEPT !.raised = TRUE]
        ELSE add_tab(s2, HOME)

\* aboutToQuit: save_bookmarks, then save_history (1 and 1.2)
aboutToQuit(s) ==
    IF version = "1"
    THEN [s EXCEPT !.bookmarksFile = File(save_bookmarks_1(s.bookmarks_list)),
                   !.historyFile = File(save_history(s.history, s.views))]
    ELSE IF version = "1.2"
    THEN [s EXCEPT !.bookmarksFile = File(save_bookmarks_12(s.bookmarks)),
                   !.historyFile = File(save_history(s.history, s.views))]
    ELSE s

\* QTabWidget.setCurrentIndex(index); currentChanged runs update_url
setCurrentIndex(s, index) ==
    IF widget(s, index) = None \/ index = s.cur THEN s
    ELSE update_url([s EXCEPT !.cur = index], index)

\* QTabBar.moveTab(from, to), which a drag of a tab ends in where the tabs
\* are movable: the tab at index from is taken out and put in at index to,
\* the current index follows the current tab, and currentChanged is emitted
\* when the current index is another one
moveTab(s, from, to) ==
    IF from = to \/ widget(s, from) = None \/ widget(s, to) = None THEN s
    ELSE LET view == widget(s, from)
             rest == SubSeq(s.tabs, 1, from) \o SubSeq(s.tabs, from + 2, Len(s.tabs))
             c == IF s.cur = from THEN to
                  ELSE IF from < s.cur /\ s.cur <= to THEN s.cur - 1
                  ELSE IF to <= s.cur /\ s.cur < from THEN s.cur + 1
                  ELSE s.cur
             moved == [s EXCEPT
                          !.tabs = SubSeq(rest, 1, to) \o <<view>>
                                   \o SubSeq(rest, to + 1, Len(rest)),
                          !.cur = c]
         IN  IF c # s.cur THEN update_url(moved, c) ELSE moved

\* Ctrl+Shift+Tab that stops at the first tab: max(i - 1, 0) for (i - 1) % n
prev_tab_sc_no_wrap(s) ==
    setCurrentIndex(s, IF s.cur - 1 < 0 THEN 0 ELSE s.cur - 1)

\* Ctrl+Tab of 1 and 1.2
next_tab_sc(s) == setCurrentIndex(s, (s.cur + 1) % Len(s.tabs))

\* Ctrl+Shift+Tab of 1 and 1.2
prev_tab_sc(s) == setCurrentIndex(s, (s.cur - 1) % Len(s.tabs))

\* view.titleChanged: the view's title is the new one; 1 and 1.2 connect
\* update_tab_title, 1.3 connects nothing
titleChanged(s, view, title) ==
    LET s1 == [s EXCEPT !.viewTitle[view] = title]
    IN  IF version = "1.3" THEN s1 ELSE update_tab_title(s1, view, title)

\* ----------------------------------------------------------------- inputs

AIO == <<"a", ".", "i", "o">>
\* Texts typed into the url bar: nothing, and "a.io"
Texts == {<<>>, AIO}
\* Urls the engine reports through urlChanged on its own (a link followed,
\* back, forward): the home page and "http://a.io"
EngineUrls == {HOME, HTTP \o AIO}
\* Page titles the engine reports
Titles == {<<"T">>}
\* the first n characters of "abcdefghijklmnopqrstuvwxyz"
Letters(n) ==
    SubSeq(<<"a", "b", "c", "d", "e", "f", "g", "h", "i", "j", "k", "l", "m",
             "n", "o", "p", "q", "r", "s", "t", "u", "v", "w", "x", "y", "z">>,
           1, n)
\* Page titles around the length update_tab cuts at: none, 1, 20, 21 and 26
\* characters
LongTitles == {Letters(n) : n \in {0, 1, 20, 21, 26}}
\* Texts typed into the folder name dialog: nothing, and " \fF" (a space and
\* a form feed before the F)
FolderTexts == {<<>>, <<" ", "\f", "F">>}
\* Texts typed into the folder name dialog of 1.3: these, and the text of the
\* create item written with the ASCII "+", after a form feed
FolderTexts13 == FolderTexts \cup {<<"\f", "+">> \o Tail(CREATE)}

\* ---------------------------------------------------------------- actions

\* The fields as a handler finds them: no exception pending
In == [Mem EXCEPT !.raised = FALSE]

Same == UNCHANGED <<version, running>>

\* The window takes input: it runs and no dialog of add_bookmark is open (an
\* open dialog is modal: clicks, keys and shortcuts go to the dialog).
Idle == running /\ dialog = NoDialog

WithinBounds(s) ==
    /\ Len(s.bookmarks_list) <= MaxEntries
    /\ Len(s.bookmarks) <= MaxFolders
    /\ \A i \in 1..Len(s.bookmarks) : Len(s.bookmarks[i].items) <= MaxEntries
    /\ \A v \in DOMAIN s.history : Len(s.history[v]) <= MaxHist

\* "+" button and Ctrl+T, while the process has created fewer than limit views
OpenTab(limit) ==
    /\ Idle /\ views < limit
    /\ SetMem(add_tab(In, HOME)) /\ Same

AddTab == OpenTab(MaxViews)

\* tabCloseRequested(index), and Ctrl+W with the current index
CloseTab ==
    /\ Idle
    /\ \E index \in -1..Len(tabs) : SetMem(close_tab(In, index))
    /\ Same

\* a click on another tab
SwitchTab ==
    /\ Idle
    /\ \E index \in 0..(Len(tabs) - 1) :
          index # cur /\ SetMem(setCurrentIndex(In, index))
    /\ Same

\* 1.3 (the tabs are movable): a tab is dragged to another place of the bar
MoveTab ==
    /\ Idle /\ version = "1.3"
    /\ \E from, to \in 0..(Len(tabs) - 1) :
          from # to /\ SetMem(moveTab(In, from, to))
    /\ Same

\* Ctrl+Tab
NextTab ==
    /\ Idle /\ version # "1.3"
    /\ SetMem(next_tab_sc(In)) /\ Same

\* Ctrl+Shift+Tab
PrevTab ==
    /\ Idle /\ version # "1.3"
    /\ SetMem(prev_tab_sc(In)) /\ Same

\* the user edits the url bar
TypeText(texts) ==
    /\ Idle
    /\ \E t \in texts : t # url_bar /\ SetMem([In EXCEPT !.url_bar = t])
    /\ Same

\* returnPressed of the url bar: load_url (1, 1.2) or navigate (1.3)
ReturnPressed ==
    /\ Idle
    /\ LET s == IF version = "1.3" THEN navigate(In) ELSE load_url(In)
       IN  WithinBounds(s) /\ SetMem(s)
    /\ Same

\* the engine changes the url of the view, open or closed, and emits
\* urlChanged
UrlChangedOf(view) ==
    /\ running
    /\ \E u \in EngineUrls :
          /\ u # viewUrl[view]
          /\ LET s == urlChanged([In EXCEPT !.viewUrl[view] = u], view)
             IN  WithinBounds(s) /\ SetMem(s)
    /\ Same

\* urlChanged of any view this process created
UrlChanged == \E view \in 1..views : UrlChangedOf(view)

\* the engine changes the title of a view to one of titles and emits
\* titleChanged
TitleChangedTo(titles) ==
    /\ running
    /\ \E view \in 1..views, t \in titles :
          t # viewTitle[view] /\ SetMem(titleChanged(In, view, t))
    /\ Same

TitleChanged == TitleChangedTo(Titles)

\* 1.3: loadFinished of the view runs update_tab(view, view.url())
LoadFinishedOf(view) ==
    /\ running /\ version = "1.3"
    /\ SetMem(update_tab(In, view, viewUrl[view]))
    /\ Same

\* loadFinished of any view this process created
LoadFinished == \E view \in 1..views : LoadFinishedOf(view)

\* the bookmark button or menu entry: add_bookmark runs to its end (1) or
\* to its first dialog (1.2, 1.3)
AddBookmark ==
    /\ Idle
    /\ LET s == IF version = "1" THEN add_bookmark_1(In)
                ELSE IF version = "1.2" THEN add_bookmark_12(In)
                ELSE add_bookmark_13(In)
       IN  WithinBounds(s) /\ SetMem(s)
    /\ Same

\* the user answers the open dialog and add_bookmark goes on from there
DialogAnswered ==
    /\ running /\ dialog # NoDialog
    /\ \E ok \in BOOLEAN,
          text \in (IF version = "1.3" THEN FolderTexts13 ELSE FolderTexts),
          pick \in Folders(bookmarks) \cup {CREATE} :
          LET s == IF version = "1.2" THEN add_bookmark_12_answered(In, text, ok)
                   ELSE IF dialog.kind = "getItem"
                   THEN add_bookmark_13_picked(In, pick, ok)
                   ELSE add_bookmark_13_named(In, text, ok)
          IN  WithinBounds(s) /\ SetMem(s)
    /\ Same

\* 1.2: a "Remove" entry of a folder menu
RemoveBookmark ==
    /\ Idle /\ version = "1.2"
    /\ \E i \in 1..Len(bookmarks) : \E j \in 1..Len(bookmarks[i].items) :
          SetMem(remove_bookmark(In, bookmarks[i].folder,
                                 bookmarks[i].items[j][1]))
    /\ Same

\* the urls the bookmark menu offers
BookmarkUrls ==
    IF version = "1"
    THEN {bookmarks_list[i][1] : i \in 1..Len(bookmarks_list)}
    ELSE UNION {{bookmarks[i].items[j][IF version = "1.2" THEN 1 ELSE 2] :
                    j \in 1..Len(bookmarks[i].items)} : i \in 1..Len(bookmarks)}

\* a bookmark entry of the menu is triggered
LoadBookmark ==
    /\ Idle
    /\ \E u \in BookmarkUrls :
          LET s == load_bookmark(In, u) IN WithinBounds(s) /\ SetMem(s)
    /\ Same

\* the entry for url u of the History menu is triggered
HistoryEntryOf(u) ==
    /\ Idle /\ version # "1.3"
    /\ u \in Range(history_menu)
    /\ LET s == history_action(In, u) IN WithinBounds(s) /\ SetMem(s)
    /\ Same

\* an entry of the History menu is triggered
HistoryEntry == \E u \in Range(history_menu) : HistoryEntryOf(u)

\* the application quits: aboutToQuit runs the save slots, the process ends
Quit ==
    /\ Idle
    /\ SetMem(aboutToQuit(In))
    /\ running' = FALSE /\ UNCHANGED version

\* the program is started again: __init__ on the files of the last run
Start ==
    /\ ~running
    /\ LET s == init(bookmarksFile, historyFile)
       IN  SetMem(s) /\ running' = ~s.raised
    /\ UNCHANGED version

\* ---------------------------------------------------------- specifications

IsMem(s) ==
    /\ tabs = s.tabs
    /\ cur = s.cur
    /\ views = s.views
    /\ viewUrl = s.viewUrl
    /\ viewTitle = s.viewTitle
    /\ tabText = s.tabText
    /\ history = s.history
    /\ url_bar = s.url_bar
    /\ history_menu = s.history_menu
    /\ bookmarks_list = s.bookmarks_list
    /\ bookmarks = s.bookmarks
    /\ raised = s.raised
    /\ recorded = s.recorded
    /\ dialog = s.dialog
    /\ bookmarksFile = s.bookmarksFile
    /\ historyFile = s.historyFile

\* The first run of any of the three programs: no file exists yet.
Init ==
    /\ version \in {"1", "1.2", "1.3"}
    /\ running = TRUE
    /\ IsMem(init(NoFile, NoFile))

\* Tabs, navigation and the per-tab history, over restarts.
Next ==
    \/ AddTab
    \/ CloseTab
    \/ SwitchTab
    \/ MoveTab
    \/ NextTab
    \/ PrevTab
    \/ TypeText(Texts)
    \/ ReturnPressed
    \/ UrlChanged
    \/ HistoryEntry
    \/ Quit
    \/ Start

Spec == Init /\ [][Next]_vars

\* Bookmarks of the pages one tab visits, over restarts.
NextBookmarks ==
    \/ UrlChanged
    \/ AddBookmark
    \/ DialogAnswered
    \/ RemoveBookmark
    \/ LoadBookmark
    \/ Quit
    \/ Start

SpecBookmarks == Init /\ [][NextBookmarks]_vars

\* All sequences over S of length at most n
SeqsUpTo(S, n) == UNION {[1..k -> S] : k \in 0..n}

\* No two elements of the sequence s have the same Key
Distinct(s, Key(_)) ==
    \A i, j \in 1..Len(s) : Key(s[i]) = Key(s[j]) => i = j

\* ---- the url bar: one tab, a text typed, return pressed
\* The typed texts: a prefix followed by a body.
NavPrefixes == {<<>>, HTTP, HTTPS, <<"h", "t", "t", "p">>, <<" ", "\f">>}
NavBodies == {<<"a">>, <<"a", " ", "b">>, AIO, AIO \o <<"/", "p">>,
              <<"b", "i", "n", ".", "o", "r", "g">>, AIO \o <<" ">>}
NavTexts == {p \o b : p \in NavPrefixes, b \in NavBodies} \cup {<<>>, <<" ">>}

InitNav ==
    /\ version \in {"1", "1.2", "1.3"}
    /\ running = TRUE
    /\ \E t \in NavTexts : IsMem([init(NoFile, NoFile) EXCEPT !.url_bar = t])

NextNav ==
    \/ ReturnPressed
    \/ TitleChanged
    \/ LoadFinished

SpecNav == InitNav /\ [][NextNav]_vars

\* ---- bookmarks saved at exit and loaded at the next start
\* The window holds any collection of bookmarks within the bounds; titles
\* and folder names may hold "|".
RtUrls == {<<"u">>, <<"v">>}
RtTitles == {<<"a">>, <<"a", "|", "b">>}
RtFolders == {<<"f">>, <<"f", "|", "g">>}

\* lists of <<url, title>> without a repeated url
RtLists ==
    {l \in SeqsUpTo(RtUrls \X RtTitles, MaxEntries) :
        Distinct(l, LAMBDA b : b[1])}

\* dicts of non-empty lists without a repeated folder
RtDicts ==
    {d \in SeqsUpTo([folder : RtFolders, items : RtLists \ {<<>>}], MaxFolders) :
        Distinct(d, LAMBDA e : e.folder)}

InitRoundTrip ==
    /\ version \in {"1", "1.2"}
    /\ running = TRUE
    /\ \/ /\ version = "1"
          /\ \E l \in RtLists :
                IsMem([init(NoFile, NoFile) EXCEPT !.bookmarks_list = l])
       \/ /\ version = "1.2"
          /\ \E d \in RtDicts :
                IsMem([init(NoFile, NoFile) EXCEPT !.bookmarks = d])

NextRestart ==
    \/ Quit
    \/ Start

SpecRoundTrip == InitRoundTrip /\ [][NextRestart]_vars

\* ---- start-up of portoco1.2.py on any bookmarks.txt
\* "f|t|u", "g|t|v", "f|s|v|w", " \ff|t|u " (a form feed after the space),
\* "||", "", "t|u", "x"
LoadLines ==
    { <<"f", "|", "t", "|", "u">>, <<"g", "|", "t", "|", "v">>,
      <<"f", "|", "s", "|", "v", "|", "w">>,
      <<" ", "\f", "f", "|", "t", "|", "u", " ">>, <<"|", "|">>,
      <<>>, <<"t", "|", "u">>, <<"x">> }

\* The process has not started; bookmarks.txt is absent, or any text of up
\* to MaxLines lines, or a file whose reading raises after any such lines;
\* history.txt is absent, or raises at once or after one line.
InitLoad ==
    /\ version = "1.2"
    /\ running = FALSE
    /\ \E bf \in {NoFile}
                  \cup {File(l) : l \in SeqsUpTo(LoadLines, MaxLines)}
                  \cup {Unreadable(l) : l \in SeqsUpTo(LoadLines, MaxLines)},
          hf \in {NoFile, Unreadable(<<>>), Unreadable(<<HOME>>)} :
          IsMem(Fresh(bf, hf))

SpecLoad == InitLoad /\ [][NextRestart]_vars

\* ---- the tab bar of 1 and 1.2: tabs opened, closed, clicked and cycled
InitTabs ==
    /\ version \in {"1", "1.2"}
    /\ running = TRUE
    /\ IsMem(init(NoFile, NoFile))

NextTabs ==
    \/ OpenTab(MaxTabs)
    \/ CloseTab
    \/ SwitchTab
    \/ NextTab
    \/ PrevTab

SpecTabs == InitTabs /\ [][NextTabs]_vars

\* ---- the tab texts of 1.3: tabs opened, closed and dragged, pages
\* reporting titles
InitTitles ==
    /\ version = "1.3"
    /\ running = TRUE
    /\ IsMem(init(NoFile, NoFile))

NextTitles ==
    \/ AddTab
    \/ CloseTab
    \/ MoveTab
    \/ TitleChangedTo(LongTitles)
    \/ LoadFinished
    \/ UrlChanged

SpecTitles == InitTitles /\ [][NextTitles]_vars

\* ----------------------------------------------------------------- claims

\* a start-up step: __init__ runs on the files the last run left
IsStart == ~running /\ running'

V12 == version \in {"1", "1.2"}

\* C1 (as claimed): load_bookmarks on the file save_bookmarks wrote rebuilds
\* the same entries in the same order, also when titles or folder names hold
\* "|": the bookmarks after a start-up equal the bookmarks the last run held
\* when it quit.
C1_RoundTrip ==
    [][IsStart => (bookmarks_list' = bookmarks_list /\ bookmarks' = bookmarks)]_vars

\* C2 (as claimed): every url of the history.txt the last run wrote is in
\* some list of self.history when __init__ has finished.
C2_HistoryRestored ==
    [][(IsStart /\ V12) =>
          \A i \in 1..Len(historyFile.lines) :
              \E v \in DOMAIN history' :
                  historyFile.lines[i] \in Range(history'[v])]_vars

\* the urls in the history lists of the open tabs
OpenHistory == UNION {Range(history[v]) : v \in Range(tabs) \cap DOMAIN history}

\* C3 (as claimed): after quit, history.txt holds every url that was put
\* into any tab's history list during the session.
C3_AllRecordedSaved ==
    (~running /\ V12 /\ historyFile.exists)
        => recorded \subseteq Range(historyFile.lines)

\* C3 (amended): after quit, history.txt holds exactly the urls of the
\* history lists of the tabs that were open at quit; the urls of a tab closed
\* before are not saved with it.
C3_OpenTabsSaved ==
    (~running /\ V12 /\ historyFile.exists /\ tabs # <<>>)
        => Range(historyFile.lines) = OpenHistory

\* C3 witness: a session in which a tab was closed has ended; the open
\* tab's list is saved and a url of the closed tab is missing from the file.
C3_Witness ==
    /\ ~running /\ V12 /\ historyFile.exists
    /\ views = 2 /\ Len(tabs) = 1
    /\ historyFile.lines = history[tabs[1]]
    /\ \E u \in recorded : u \notin Range(historyFile.lines)

\* C4 (as claimed): in 1.3 the bookmarks held at quit are the bookmarks
\* after the next start.
C4_BookmarksRestored13 ==
    [][(IsStart /\ version = "1.3") => bookmarks' = bookmarks]_vars

\* the urls of a list of 1 and 1.2 entries <<url, title>>
Urls12(items) == [i \in 1..Len(items) |-> items[i][1]]
\* the urls of a list of 1.3 entries <<title, url>>
Urls13(items) == [i \in 1..Len(items) |-> items[i][2]]
NoRepeat(l) == \A i, j \in 1..Len(l) : l[i] = l[j] => i = j

\* C5: no bookmark container holds a url twice: the flat list of 1, and
\* each folder's list of 1.2 and 1.3.
C5_NoDuplicates ==
    /\ NoRepeat(Urls12(bookmarks_list))
    /\ \A i \in 1..Len(bookmarks) :
          NoRepeat(IF version = "1.3" THEN Urls13(bookmarks[i].items)
                   ELSE Urls12(bookmarks[i].items))

\* C5 witness: one url is bookmarked in two folders, and a second add of a
\* url already in the container was possible (the container is not empty).
C5_Witness ==
    /\ running /\ version \in {"1.2", "1.3"} /\ Len(bookmarks) = 2
    /\ \E i \in 1..Len(bookmarks[1].items), j \in 1..Len(bookmarks[2].items) :
          IF version = "1.3"
          THEN bookmarks[1].items[i][2] = bookmarks[2].items[j][2]
          ELSE bookmarks[1].items[i][1] = bookmarks[2].items[j][1]
    /\ \E i \in 1..2 : Len(bookmarks[i].items) = 2

\* C6: in 1 and 1.2 the keys of self.history are exactly the views in the
\* tab widget.
C6_HistoryKeysAreTabs ==
    (running /\ V12) => DOMAIN history = Range(tabs)

\* C6 witness: a tab was opened and a tab was closed, one tab is left.
C6_Witness ==
    running /\ V12 /\ views = 2 /\ Len(tabs) = 1 /\ DOMAIN history = {2}

\* C7: in all versions the running window has at least one tab, and the
\* current index names one of them, so current_tab() is not None.
C7_NeverZeroTabs ==
    running => (Len(tabs) >= 1 /\ cur \in 0..(Len(tabs) - 1)
                /\ current_tab(Mem) # None)

\* C7 witness: in 1.3 two tabs were opened and one closed again.
C7_Witness ==
    running /\ version = "1.3" /\ views = 2 /\ Len(tabs) = 1

\* ---- C8: what load_bookmarks of 1.2 is to make of a file
BarCount(l) == Cardinality({i \in 1..Len(l) : l[i] = "|"})
\* position of the k-th "|" of l
Bar(l, k) ==
    CHOOSE i \in 1..Len(l) :
        l[i] = "|" /\ Cardinality({j \in 1..i : l[j] = "|"}) = k
\* the stripped lines that hold at least two "|", in file order
GoodLines(lines) ==
    SelectSeq([i \in 1..Len(lines) |-> strip(lines[i])],
              LAMBDA l : BarCount(l) >= 2)
FolderOf(l) == SubSeq(l, 1, Bar(l, 1) - 1)
TitleOf(l) == SubSeq(l, Bar(l, 1) + 1, Bar(l, 2) - 1)
UrlOf(l) == SubSeq(l, Bar(l, 2) + 1, Len(l))

\* what load_bookmarks is to make of the lines: each folder's list holds, in
\* file order, the (url, title) of exactly the lines of that folder that have
\* three "|"-separated fields; no line, no folder
Loaded(lines, bm) ==
    LET good == GoodLines(lines)
    IN  /\ Folders(bm) = {FolderOf(good[i]) : i \in 1..Len(good)}
        /\ \A k \in 1..Len(bm) :
              LET mine == SelectSeq(good, LAMBDA l : FolderOf(l) = bm[k].folder)
              IN  bm[k].items =
                      [i \in 1..Len(mine) |-> <<UrlOf(mine[i]), TitleOf(mine[i])>>]

\* a start-up of 1.2: __init__ runs on the files found
Start12 == version = "1.2" /\ Start

\* history.txt does not keep load_history from completing
HistoryLoads == ~(historyFile.exists /\ ~historyFile.readable)

C9_HttpTextIsUrl ==
    [][(version = "1.2" /\ ReturnPressed /\ IsHttpUrl(strip(url_bar)))
          => viewUrl'[current_tab(Mem)] = strip(url_bar)]_vars

\* C10 (as claimed): in 1.3 the url handed to the current tab for a
\* non-blank bar text begins with http:// or https://.
C10_TargetIsHttp ==
    [][(version = "1.3" /\ ReturnPressed /\ strip(url_bar) # <<>>)
          => IsHttpUrl(viewUrl'[current_tab(Mem)])]_vars

\* ---- C11: the url bar and the current tab
\* the events of the claim: add_tab, close_tab, a tab switch, urlChanged
TabEvent == AddTab \/ CloseTab \/ SwitchTab \/ NextTab \/ PrevTab \/ UrlChanged

\* the url bar shows the url of the current tab
BarShowsCurrent == url_bar = viewUrl[current_tab(Mem)]

\* urlChanged of a view that is not the current tab
UrlChangedElsewhere ==
    \E view \in 1..views : view # current_tab(Mem) /\ UrlChangedOf(view)

\* urlChanged of the current tab
UrlChangedHere == UrlChangedOf(current_tab(Mem))

\* the step makes another index or another view the current one
CurrentChanges == cur' # cur \/ tabs'[cur' + 1] # tabs[cur + 1]

\* C11 (as claimed): after each add_tab, close_tab, tab switch and urlChanged
\* the url bar text is the url of the current tab, and urlChanged of a tab
\* that is not current leaves the url bar text unchanged.
C11_BarFollowsCurrent ==
    [][/\ TabEvent => BarShowsCurrent'
       /\ UrlChangedElsewhere => url_bar' = url_bar]_vars

\* C11 (amended): the url bar text is the url of the current tab after
\* add_tab, after a close_tab or tab switch that makes another index or view
\* current, and after urlChanged of the current tab; a close_tab or switch
\* that leaves the current index and view alone, and urlChanged of a tab that
\* is not current, leave the url bar text unchanged (a text the user typed
\* stays).
C11_BarFollowsChange ==
    [][/\ (AddTab \/ UrlChangedHere) => BarShowsCurrent'
       /\ (CloseTab \/ SwitchTab \/ NextTab \/ PrevTab) =>
              IF CurrentChanges THEN BarShowsCurrent' ELSE url_bar' = url_bar
       /\ UrlChangedElsewhere => url_bar' = url_bar]_vars

\* C11 witness: two tabs on different pages, a text typed into the bar while
\* the second tab is current: switches, closes and urlChanged of either tab
\* are possible from here.
C11_Witness ==
    /\ running /\ Len(tabs) = 2 /\ cur = 1
    /\ viewUrl[tabs[1]] # viewUrl[tabs[2]]
    /\ url_bar = AIO /\ ~BarShowsCurrent

\* C12 (as claimed): in 1 and 1.2, triggering the History menu entry for url
\* u completes without an error and leaves the current tab at u.
C12_HistoryEntryNavigates ==
    [][\A u \in Range(history_menu) :
          HistoryEntryOf(u) =>
              (~raised' /\ viewUrl'[current_tab(Mem)] = u)]_vars

\* ---- C13: Ctrl+Tab and Ctrl+Shift+Tab
\* the current index after k presses of Ctrl+Tab (forward) or Ctrl+Shift+Tab
RECURSIVE presses(_, _, _)
presses(s, k, forward) ==
    IF k = 0 THEN s.cur
    ELSE presses(IF forward THEN next_tab_sc(s) ELSE prev_tab_sc(s),
                 k - 1, forward)

\* C13: in 1 and 1.2, with i the current index and n the tab count, Ctrl+Tab
\* selects the next tab and the first one after the last, Ctrl+Shift+Tab the
\* previous tab and the last one before the first; the tabs stay as they
\* are and the selected index is in 0..n-1; each shortcut undoes the other,
\* and n presses of either return to the starting tab.
C13_TabCycle ==
    /\ [][/\ NextTab =>
              (/\ tabs' = tabs
               /\ cur' \in 0..(Len(tabs) - 1)
               /\ cur' = IF cur = Len(tabs) - 1 THEN 0 ELSE cur + 1)
          /\ PrevTab =>
              (/\ tabs' = tabs
               /\ cur' \in 0..(Len(tabs) - 1)
               /\ cur' = IF cur = 0 THEN Len(tabs) - 1 ELSE cur - 1)]_vars
    /\ [](running =>
            (/\ prev_tab_sc(next_tab_sc(Mem)).cur = cur
             /\ next_tab_sc(prev_tab_sc(Mem)).cur = cur
             /\ presses(Mem, Len(tabs), TRUE) = cur
             /\ presses(Mem, Len(tabs), FALSE) = cur))

\* C13 witness: three tabs, none closed, and the first one is current: the
\* next Ctrl+Shift+Tab wraps to the last tab.
C13_Witness ==
    running /\ V12 /\ views = 3 /\ Len(tabs) = 3 /\ cur = 0

\* ---- C14: the tab text update_tab sets in 1.3
\* update_tab(view, ...) runs: urlChanged or loadFinished of the view
UpdateTabOf(view) == version = "1.3" /\ (UrlChangedOf(view) \/ LoadFinishedOf(view))

\* C14: in 1.3, when update_tab runs for a view in the tab widget, the tab
\* text it sets has at most 20 characters: the page title when that has 1 to
\* 20 characters, its first 17 characters followed by "..." when it is
\* longer, "New Tab" when it is empty; for a view that is no longer in the
\* tab widget no tab text is set.
C14_TabTitleLimited ==
    [][\A view \in 1..views :
          UpdateTabOf(view) =>
              IF view \in Range(tabs)
              THEN LET title == viewTitle[view]
                       text == tabText'[view]
                   IN  /\ Len(text) <= 20
                       /\ Len(title) \in 1..20 => text = title
                       /\ Len(title) > 20 =>
                              (/\ Len(text) = 20
                               /\ SubSeq(text, 1, 17) = SubSeq(title, 1, 17)
                               /\ SubSeq(text, 18, 20) = <<".", ".", ".">>)
                       /\ title = <<>> => text = NEWTAB
              ELSE tabText' = tabText /\ view \notin DOMAIN tabText']_vars

\* C14 witness: the open tab shows a cut title of 20 characters, and the
\* view of a closed tab has reported a title of its own.
C14_Witness ==
    /\ running /\ version = "1.3" /\ views = 2 /\ Len(tabs) = 1
    /\ Len(viewTitle[tabs[1]]) > 20
    /\ tabText[tabs[1]] = SubSeq(viewTitle[tabs[1]], 1, 17) \o <<".", ".", ".">>
    /\ \E view \in 1..views : view \notin Range(tabs) /\ viewTitle[view] # <<>>

\* C15 (as claimed): in 1 and 1.2, after each add_tab, close_tab, tab switch,
\* load_url and urlChanged, the History menu lists exactly the urls of the
\* current tab's history list, the most recent first.
C15_MenuIsCurrentHistory ==
    [][(V12 /\ (TabEvent \/ ReturnPressed)) =>
          history_menu' = reversed(history'[tabs'[cur' + 1]])]_vars

\* C16 (as claimed): in 1 and 1.2, urlChanged of a view whose tab close_tab
\* has closed is handled without an error and changes neither self.history
\* nor the url bar text.
C16_ClosedViewIgnored ==
    [][\A view \in 1..views :
          (V12 /\ view \notin Range(tabs) /\ UrlChangedOf(view)) =>
              (~raised' /\ history' = history /\ url_bar' = url_bar)]_vars
====
